---------------------------- MODULE Spec2Model ----------------------------
(***************************************************************************)
(* Model of the BusTub buffer pool: BufferPoolManagerInstance              *)
(* (src/src/buffer/buffer_pool_manager_instance.cpp) and its replacer      *)
(* (src/src/buffer/lru_replacer.cpp).                                      *)
(*                                                                         *)
(* Spec       : the public operations executed one at a time; the state    *)
(*              is the frames' metadata, every buffer stays zeroed.        *)
(* DataSpec   : Spec, with callers storing bytes in the pages they pin.    *)
(* ConcSpec   : threads calling the operations concurrently; an operation  *)
(*              that holds latch_ for its whole body is one step, NewPgImp *)
(*              (which takes no lock) is a sequence of steps.              *)
(* SerialSpec : ConcSpec with no two calls overlapping.                    *)
(* RepSpec    : an LRUReplacer and a ClockReplacer                         *)
(*              (src/src/buffer/clock_replacer.cpp) driven by one caller   *)
(*              with the same calls.                                       *)
(* RepConcSpec: the LRUReplacer under concurrent callers, its reads of que *)
(*              outside mu as steps of their own.                          *)
(* OneFrameSpec: a pool of one frame taken through the round trip.         *)
(* LockSpec   : what the operations do with latch_ and the replacer's mu.  *)
(*                                                                         *)
(* LRUReplacer::pined_page is written and never read; it is left out.      *)
(* DeallocatePage is a no-op of the disk peer.                             *)
(***************************************************************************)
EXTENDS Integers, Sequences, FiniteSets, TLC

\* ------------------------------------------------------------------ bounds
PoolSize == 2        \* pool_size: frames of the instance
NumInstances == 2    \* num_instances: instances of the parallel pool
MaxNew == 2          \* NewPage succeeds at most MaxNew times
MaxPin == 2          \* FetchPage raises a pin count to at most MaxPin
MaxData == 1         \* bytes a client stores are 0 .. MaxData; 0 is a zeroed buffer
MaxWrites == 1       \* clients store bytes at most MaxWrites times
NumThreads == 2      \* concurrent callers
NumPages == 4        \* num_pages of a replacer driven on its own

INVALID_PAGE_ID == -1

\* The instance modelled is the last one of the parallel pool.
InstanceIndex == NumInstances - 1

Frames == 0 .. (PoolSize - 1)
\* The ids this instance hands out, and one more that it never created.
PageIds == {InstanceIndex + j * NumInstances : j \in 0 .. MaxNew}
MaxPageId == InstanceIndex + (MaxNew - 1) * NumInstances
Bytes == 0 .. MaxData
Threads == 1 .. NumThreads
NoFrame == -1
NoThread == 0
\* The frame ids a replacer driven on its own is called with.
RepFrames == 0 .. (NumPages - 1)
PageArgs == PageIds \cup {INVALID_PAGE_ID}

VARIABLES
    pages,          \* pages_[f] : page_id_, pin_count_, is_dirty_, data_
    page_table,     \* page_table_ : page id -> frame id
    free_list,      \* free_list_ : sequence of frame ids
    replacer,       \* replacer_ : LRUReplacer, fields que and que_page
    next_page_id,   \* next_page_id_
    instance_index, \* instance_index_ (fixed at construction)
    disk,           \* the disk peer: page id -> stored bytes
    last,           \* the last call: operation, result, the disk peer calls it made
    refs,           \* per page: pins handed out minus successful unpins
    wrote,          \* pages a pinner has written and not yet unpinned as dirty
    expect,         \* per page: bytes deposited by a write then UnpinPage(p, true)
    issued,         \* the page ids NewPage has returned, in order
    nwrites,        \* how many times clients have stored bytes
    pc,             \* per thread: position inside NewPgImp
    loc,            \* per thread: NewPgImp's locals frame_id and pid, its disk calls
    held,           \* per thread: the page NewPage returned, still pinned by it
    clock,          \* a ClockReplacer, fields que and que_page
    tracked,        \* the frames a replacer tracks, oldest tracking Unpin first
    rcall,          \* the last call on the replacers: operation, argument, results
    latch,          \* latch_ : the thread holding it, or NoThread
    mu,             \* the replacer's mu : the thread holding it, or NoThread
    call            \* per thread: the operation it is in, its count of inner calls

poolVars == <<pages, page_table, free_list, replacer, next_page_id,
              instance_index, disk>>
ghostVars == <<last, refs, wrote, expect, issued, nwrites>>
thrVars == <<pc, loc, held>>
frameVars == <<pages, page_table, free_list, next_page_id, instance_index, disk>>
repVars == <<clock, tracked, rcall>>
lockVars == <<latch, mu, call>>
vars == <<pages, page_table, free_list, replacer, next_page_id,
          instance_index, disk, last, refs, wrote, expect, issued, nwrites,
          pc, loc, held, clock, tracked, rcall, latch, mu, call>>

\* ------------------------------------------------------------ page table
\* std::unordered_map::erase(key)
Erase(pt, k) == [x \in (DOMAIN pt) \ {k} |-> pt[x]]

\* page_table_[k] = v
Put(pt, k, v) == [x \in (DOMAIN pt) \cup {k} |-> IF x = k THEN v ELSE pt[x]]

\* ------------------------------------------------------------ LRUReplacer
RECURSIVE RemoveFirst(_, _)
RemoveFirst(s, x) ==
    IF s = <<>> THEN <<>>
    ELSE IF Head(s) = x THEN Tail(s)
    ELSE <<Head(s)>> \o RemoveFirst(Tail(s), x)

InSeq(s, x) == \E i \in 1 .. Len(s) : s[i] = x

EmptyReplacer == [que |-> <<>>, que_page |-> {}]

\* LRUReplacer::Size
ReplacerSize(r) == Len(r.que)

\* LRUReplacer::Victim : found flag, frame, replacer afterwards
ReplacerVictim(r) ==
    IF Len(r.que) = 0
    THEN [ok |-> FALSE, frame |-> NoFrame, rep |-> r]
    ELSE [ok |-> TRUE, frame |-> Head(r.que),
          rep |-> [que |-> Tail(r.que), que_page |-> r.que_page \ {Head(r.que)}]]

\* LRUReplacer::Pin, with the removal left out
ReplacerPinNoRemove(r, f) == r

\* LRUReplacer::Pin
ReplacerPin(r, f) ==
    IF InSeq(r.que, f)
    THEN [que |-> RemoveFirst(r.que, f), que_page |-> r.que_page \ {f}]
    ELSE r

\* LRUReplacer::Unpin, with the test of que_page left out
ReplacerUnpinAlways(r, f) ==
    [que |-> Append(r.que, f), que_page |-> r.que_page \cup {f}]

\* LRUReplacer::Unpin
ReplacerUnpin(r, f) ==
    IF f \notin r.que_page
    THEN [que |-> Append(r.que, f), que_page |-> r.que_page \cup {f}]
    ELSE r

\* ---------------------------------------------------------- ClockReplacer
\* ClockReplacer::Size
ClockSize(r) == Len(r.que)

\* ClockReplacer::Victim, taking the back of the queue instead of the front
ClockVictimNewest(r) ==
    IF Len(r.que) = 0
    THEN [ok |-> FALSE, frame |-> NoFrame, rep |-> r]
    ELSE [ok |-> TRUE, frame |-> r.que[Len(r.que)],
          rep |-> [que |-> SubSeq(r.que, 1, Len(r.que) - 1),
                   que_page |-> r.que_page \ {r.que[Len(r.que)]}]]

\* ClockReplacer::Victim
ClockVictim(r) ==
    IF Len(r.que) = 0
    THEN [ok |-> FALSE, frame |-> NoFrame, rep |-> r]
    ELSE [ok |-> TRUE, frame |-> Head(r.que),
          rep |-> [que |-> Tail(r.que), que_page |-> r.que_page \ {Head(r.que)}]]

\* ClockReplacer::Pin
ClockPin(r, f) ==
    IF InSeq(r.que, f)
    THEN [que |-> RemoveFirst(r.que, f), que_page |-> r.que_page \ {f}]
    ELSE r

\* ClockReplacer::Unpin
ClockUnpin(r, f) ==
    IF f \notin r.que_page
    THEN [que |-> Append(r.que, f), que_page |-> r.que_page \cup {f}]
    ELSE r

\* ------------------------------------------------- results of replacer calls
\* What a replacer call hands back: Victim its bool and *frame_id, Size the
\* count, Pin and Unpin nothing.
Result(ok, val) == [ok |-> ok, val |-> val]

Void == Result(TRUE, NoFrame)

\* The record of one call made on both replacers.
RCall(op, arg, lru, clk) == [op |-> op, arg |-> arg, lru |-> lru, clock |-> clk]

\* ------------------------------------------------------------------ Page
EmptyPage == [page_id |-> INVALID_PAGE_ID, pin_count |-> 0, is_dirty |-> FALSE, data |-> 0]

\* p->pin_count_++
Pinned(pg) == [pg EXCEPT !.pin_count = @ + 1]

\* ------------------------------------------------------------- disk peer
WritePage(dk, pid, data) == IF pid \in DOMAIN dk THEN [dk EXCEPT ![pid] = data] ELSE dk

ReadPage(dk, pid) == IF pid \in DOMAIN dk THEN dk[pid] ELSE 0

\* ---------------------------------------------------------------- ghosts
SetRef(r, pid, n) == IF pid \in DOMAIN r THEN [r EXCEPT ![pid] = n] ELSE r

\* One more pin of pid handed out: the count restarts at 1 when pid was not
\* in the page table pt, and goes up by one when it was.
AddRef(r, pt, pid) == SetRef(r, pid, IF pid \in DOMAIN pt THEN r[pid] + 1 ELSE 1)

SetExpect(e, pid, b) == IF pid \in DOMAIN e THEN [e EXCEPT ![pid] = b] ELSE e

\* The calls an operation makes on the disk peer, in the order it makes them.
WriteCall(pid, data) == <<[call |-> "WritePage", page_id |-> pid, data |-> data]>>

ReadCall(pid, data) == <<[call |-> "ReadPage", page_id |-> pid, data |-> data]>>

DeallocateCall(pid) == <<[call |-> "DeallocatePage", page_id |-> pid, data |-> 0]>>

\* The record of a call: page_id is the id NewPage stored in its out parameter,
\* io the calls made on the disk peer.
CallIO(op, out, ret, io) == [op |-> op, page_id |-> out, ret |-> ret, io |-> io]

\* The record of a call that made no call on the disk peer.
Call(op, out, ret) == CallIO(op, out, ret, <<>>)

\* A thread outside every operation
NoCall == [op |-> "none", n |-> 0]

\* NewPgImp's locals before the call
NoLocals == [frame_id |-> NoFrame, pid |-> INVALID_PAGE_ID, io |-> <<>>]

\* ------------------------------------------------------------------ Init
\* The constructor, called with pool_size
InitPool(pool_size) ==
    /\ pages = [f \in 0 .. (pool_size - 1) |-> EmptyPage]
    /\ page_table = << >>
    /\ free_list = [i \in 1 .. pool_size |-> i - 1]
    /\ replacer = EmptyReplacer
    /\ instance_index = InstanceIndex
    /\ next_page_id = instance_index
    /\ disk = [p \in PageIds |-> 0]
    /\ last = Call("Init", INVALID_PAGE_ID, FALSE)
    /\ refs = [p \in PageIds |-> 0]
    /\ wrote = {}
    /\ expect = [p \in PageIds |-> {}]
    /\ issued = <<>>
    /\ nwrites = 0
    /\ pc = [t \in Threads |-> "idle"]
    /\ loc = [t \in Threads |-> NoLocals]
    /\ held = [t \in Threads |-> [page_id |-> INVALID_PAGE_ID, frame |-> NoFrame]]
    /\ clock = EmptyReplacer
    /\ tracked = <<>>
    /\ rcall = RCall("Init", NoFrame, Void, Void)
    /\ latch = NoThread
    /\ mu = NoThread
    /\ call = [t \in Threads |-> NoCall]

Init == InitPool(PoolSize)

\* ------------------------------------------------------------- shorthands
Resident(p) == p \in DOMAIN page_table

FrameOf(p) == page_table[p]

InFreeList(f) == InSeq(free_list, f)

InReplacer(f) == InSeq(replacer.que, f)

Range(q) == {q[i] : i \in 1 .. Len(q)}

\* ---------------------------------------------------------- pool helpers
\* replacer_->Size() == 0 && free_list_.empty(), with the replacer forgotten
AllPinnedFreeListOnly(r, fl) == fl = <<>>

\* replacer_->Size() == 0 && free_list_.empty()
AllPinned(r, fl) == ReplacerSize(r) = 0 /\ fl = <<>>

\* next_page_id_ += num_instances_, advancing by one instead
NextAfterAllocateByOne(n) == n + 1

\* next_page_id_ += num_instances_
NextAfterAllocate(n) == n + NumInstances

\* free_list_.push_back(frame_id), pushing at the front instead
PushBackAtFront(fl, f) == <<f>> \o fl

\* free_list_.push_back(frame_id)
PushBack(fl, f) == Append(fl, f)

\* page_table_.erase(p->GetPageId()), with the entry left in place
EraseOldKept(pt, k) == pt

\* page_table_.erase(p->GetPageId())
EraseOld(pt, k) == Erase(pt, k)

\* p->is_dirty_ = is_dirty
UnpinDirty(old, is_dirty) == is_dirty

\* if (r->IsDirty()) WritePage(r->page_id_, r->data_), with the write left out
WriteBackNever(r, dk) == dk

\* if (r->IsDirty()) WritePage(r->page_id_, r->data_)
WriteBack(r, dk) == IF r.is_dirty THEN WritePage(dk, r.page_id, r.data) ELSE dk

\* The frame NewPgImp and a FetchPgImp miss pick: free list first, else a victim.
\* A victim is written back if dirty and gets is_dirty_ = false, pin_count_ = 0.
PickFrame ==
    IF free_list # <<>>
    THEN [ok |-> TRUE, frame_id |-> Head(free_list), fl |-> Tail(free_list),
          rep |-> replacer, dk |-> disk, io |-> <<>>, pg |-> pages[Head(free_list)]]
    ELSE LET v == ReplacerVictim(replacer)
         IN IF ~v.ok
            THEN [ok |-> FALSE, frame_id |-> NoFrame, fl |-> free_list,
                  rep |-> replacer, dk |-> disk, io |-> <<>>, pg |-> EmptyPage]
            ELSE LET r == pages[v.frame]
                 IN [ok |-> TRUE, frame_id |-> v.frame, fl |-> free_list, rep |-> v.rep,
                     dk |-> WriteBack(r, disk),
                     io |-> IF r.is_dirty THEN WriteCall(r.page_id, r.data) ELSE <<>>,
                     pg |-> [r EXCEPT !.is_dirty = FALSE, !.pin_count = 0]]

\* --------------------------------------------------------------- NewPgImp
NewPgImp ==
    IF AllPinned(replacer, free_list) \/ ~PickFrame.ok
    THEN /\ last' = Call("New", INVALID_PAGE_ID, FALSE)
         /\ UNCHANGED <<poolVars, refs, wrote, expect, issued, nwrites>>
    ELSE /\ Len(issued) < MaxNew
         /\ LET k == PickFrame
                old == k.pg.page_id
                pid == next_page_id
                p == Pinned([k.pg EXCEPT !.data = 0, !.page_id = pid, !.is_dirty = FALSE])
            IN /\ pages' = [pages EXCEPT ![k.frame_id] = p]
               /\ page_table' = Put(EraseOld(page_table, old), pid, k.frame_id)
               /\ free_list' = k.fl
               /\ replacer' = ReplacerPin(k.rep, k.frame_id)
               /\ next_page_id' = NextAfterAllocate(next_page_id)
               /\ disk' = k.dk
               /\ last' = CallIO("New", pid, TRUE, k.io)
               /\ refs' = AddRef(SetRef(refs, old, 0), EraseOld(page_table, old), pid)
               /\ wrote' = wrote \ {old, pid}
               /\ expect' = SetExpect(expect, pid, {})
               /\ issued' = Append(issued, pid)
               /\ UNCHANGED <<instance_index, nwrites>>

\* ------------------------------------------------------------- FetchPgImp
FetchPgImp(page_id) ==
    IF page_id = INVALID_PAGE_ID
    THEN /\ last' = Call("Fetch", INVALID_PAGE_ID, FALSE)
         /\ UNCHANGED <<poolVars, refs, wrote, expect, issued, nwrites>>
    ELSE IF page_id \in DOMAIN page_table
    THEN LET f == page_table[page_id]
         IN /\ pages[f].pin_count < MaxPin
            /\ pages' = [pages EXCEPT ![f] = Pinned(@)]
            /\ replacer' = ReplacerPin(replacer, f)
            /\ last' = Call("Fetch", INVALID_PAGE_ID, TRUE)
            /\ refs' = AddRef(refs, page_table, page_id)
            /\ UNCHANGED <<page_table, free_list, next_page_id, instance_index, disk,
                           wrote, expect, issued, nwrites>>
    ELSE IF AllPinned(replacer, free_list) \/ ~PickFrame.ok
    THEN /\ last' = Call("Fetch", INVALID_PAGE_ID, FALSE)
         /\ UNCHANGED <<poolVars, refs, wrote, expect, issued, nwrites>>
    ELSE LET k == PickFrame
             old == k.pg.page_id
             p == Pinned([k.pg EXCEPT !.page_id = page_id, !.is_dirty = FALSE])
         IN /\ pages' = [pages EXCEPT ![k.frame_id] = [p EXCEPT !.data = ReadPage(k.dk, page_id)]]
            /\ page_table' = Put(EraseOld(page_table, old), page_id, k.frame_id)
            /\ free_list' = k.fl
            /\ replacer' = ReplacerPin(k.rep, k.frame_id)
            /\ disk' = k.dk
            /\ last' = CallIO("Fetch", INVALID_PAGE_ID, TRUE,
                              k.io \o ReadCall(page_id, ReadPage(k.dk, page_id)))
            /\ refs' = AddRef(SetRef(refs, old, 0), EraseOld(page_table, old), page_id)
            /\ wrote' = wrote \ {old, page_id}
            /\ UNCHANGED <<next_page_id, instance_index, expect, issued, nwrites>>

\* ------------------------------------------------------------ DeletePgImp
\* line 214: return true, returning false instead
DeleteOfAbsentRefused == FALSE

\* line 214: return true
DeleteOfAbsent == TRUE

DeletePgImp(page_id) ==
    IF page_id \notin DOMAIN page_table
    THEN /\ last' = Call("Delete", INVALID_PAGE_ID, DeleteOfAbsent)
         /\ UNCHANGED <<poolVars, refs, wrote, expect, issued, nwrites>>
    ELSE LET frame_id == page_table[page_id]
         IN IF pages[frame_id].pin_count # 0
            THEN /\ last' = Call("Delete", INVALID_PAGE_ID, FALSE)
                 /\ UNCHANGED <<poolVars, refs, wrote, expect, issued, nwrites>>
            ELSE /\ page_table' = Erase(page_table, page_id)
                 /\ pages' = [pages EXCEPT ![frame_id] = EmptyPage]
                 /\ free_list' = PushBack(free_list, frame_id)
                 /\ last' = CallIO("Delete", INVALID_PAGE_ID, TRUE, DeallocateCall(page_id))
                 /\ refs' = SetRef(refs, page_id, 0)
                 /\ wrote' = wrote \ {page_id}
                 /\ expect' = SetExpect(expect, page_id, {})
                 /\ UNCHANGED <<replacer, next_page_id, instance_index, disk, issued, nwrites>>

\* ------------------------------------------------------------- UnpinPgImp
UnpinPgImp(page_id, is_dirty) ==
    IF page_id \notin DOMAIN page_table
    THEN /\ last' = Call("Unpin", INVALID_PAGE_ID, FALSE)
         /\ UNCHANGED <<poolVars, refs, wrote, expect, issued, nwrites>>
    ELSE LET frame_id == page_table[page_id]
             p == [pages[frame_id] EXCEPT !.is_dirty = UnpinDirty(@, is_dirty)]
         IN IF p.pin_count <= 0
            THEN /\ pages' = [pages EXCEPT ![frame_id] = p]
                 /\ last' = Call("Unpin", INVALID_PAGE_ID, FALSE)
                 /\ UNCHANGED <<page_table, free_list, replacer, next_page_id,
                                instance_index, disk, refs, wrote, expect, issued, nwrites>>
            ELSE /\ pages' = [pages EXCEPT ![frame_id] = [p EXCEPT !.pin_count = @ - 1]]
                 /\ replacer' = IF p.pin_count - 1 <= 0
                                THEN ReplacerUnpin(replacer, frame_id)
                                ELSE replacer
                 /\ last' = Call("Unpin", INVALID_PAGE_ID, TRUE)
                 /\ refs' = SetRef(refs, page_id, refs[page_id] - 1)
                 /\ wrote' = IF is_dirty THEN wrote \ {page_id} ELSE wrote
                 /\ expect' = IF is_dirty /\ page_id \in wrote
                              THEN SetExpect(expect, page_id, {p.data})
                              ELSE expect
                 /\ UNCHANGED <<page_table, free_list, next_page_id, instance_index,
                                disk, issued, nwrites>>

\* ------------------------------------------------------------- FlushPgImp
\* line 68: WritePage(pages_[frame_id].page_id_, pages_[frame_id].data_), with
\* the call left out
FlushWriteSkipped(dk, pg, frame_id) == dk

\* line 68: WritePage(pages_[frame_id].page_id_, pages_[frame_id].data_)
FlushWrite(dk, pg, frame_id) == WritePage(dk, pg[frame_id].page_id, pg[frame_id].data)

\* The pages and the disk after FlushPgImp(page_id), and its return value.
FlushPg(pg, dk, pt, page_id) ==
    IF page_id = INVALID_PAGE_ID \/ page_id \notin DOMAIN pt
    THEN [ret |-> FALSE, pages |-> pg, disk |-> dk, io |-> <<>>]
    ELSE LET frame_id == pt[page_id]
         IN [ret |-> TRUE,
             pages |-> [pg EXCEPT ![frame_id].is_dirty = FALSE],
             disk |-> FlushWrite(dk, pg, frame_id),
             io |-> WriteCall(pg[frame_id].page_id, pg[frame_id].data)]

FlushPgImp(page_id) ==
    LET r == FlushPg(pages, disk, page_table, page_id)
    IN /\ pages' = r.pages
       /\ disk' = r.disk
       /\ last' = CallIO("Flush", INVALID_PAGE_ID, r.ret, r.io)
       /\ expect' = IF r.ret THEN [p \in PageIds |-> {}] ELSE expect
       /\ UNCHANGED <<page_table, free_list, replacer, next_page_id, instance_index,
                      refs, wrote, issued, nwrites>>

\* FlushAllPgsImp: FlushPage(pages_[i].page_id_) for i = 0 .. pool_size_ - 1
RECURSIVE FlushFrom(_, _, _)
FlushFrom(i, pg, dk) ==
    IF i >= Cardinality(DOMAIN pg) THEN [pages |-> pg, disk |-> dk, io |-> <<>>]
    ELSE LET r == FlushPg(pg, dk, page_table, pg[i].page_id)
             rest == FlushFrom(i + 1, r.pages, r.disk)
         IN [rest EXCEPT !.io = r.io \o @]

FlushAllPgsImp ==
    LET r == FlushFrom(0, pages, disk)
    IN /\ pages' = r.pages
       /\ disk' = r.disk
       /\ last' = CallIO("FlushAll", INVALID_PAGE_ID, TRUE, r.io)
       /\ expect' = [p \in PageIds |-> {}]
       /\ UNCHANGED <<page_table, free_list, replacer, next_page_id, instance_index,
                      refs, wrote, issued, nwrites>>

\* ----------------------------------------------------------------- client
\* A caller holding a pin on frame f stores byte b in the page's buffer.
WriteData(f, b) ==
    /\ pages[f].pin_count > 0
    /\ pages[f].page_id # INVALID_PAGE_ID
    /\ pages[f].data # b
    /\ nwrites < MaxWrites
    /\ nwrites' = nwrites + 1
    /\ pages' = [pages EXCEPT ![f].data = b]
    /\ last' = Call("Write", INVALID_PAGE_ID, TRUE)
    /\ wrote' = wrote \cup {pages[f].page_id}
    /\ expect' = SetExpect(expect, pages[f].page_id, {})
    /\ UNCHANGED <<page_table, free_list, replacer, next_page_id, instance_index,
                   disk, refs, issued>>

\* ------------------------------------------- operations, one at a time
NewPage == NewPgImp /\ UNCHANGED <<thrVars, repVars, lockVars>>

FetchPage == \E p \in PageArgs : FetchPgImp(p) /\ UNCHANGED <<thrVars, repVars, lockVars>>

UnpinPage == \E p \in PageArgs, d \in BOOLEAN : UnpinPgImp(p, d) /\ UNCHANGED <<thrVars, repVars, lockVars>>

FlushPage == \E p \in PageArgs : FlushPgImp(p) /\ UNCHANGED <<thrVars, repVars, lockVars>>

FlushAllPages == FlushAllPgsImp /\ UNCHANGED <<thrVars, repVars, lockVars>>

DeletePage == \E p \in PageArgs : DeletePgImp(p) /\ UNCHANGED <<thrVars, repVars, lockVars>>

ClientWrite == \E f \in Frames, b \in Bytes : WriteData(f, b) /\ UNCHANGED <<thrVars, repVars, lockVars>>

\* The operations on the frames' metadata; every buffer stays zeroed.
Next ==
    \/ NewPage
    \/ FetchPage
    \/ UnpinPage
    \/ FlushPage
    \/ FlushAllPages
    \/ DeletePage

Spec == Init /\ [][Next]_vars

\* The same operations, with clients storing bytes in the pages they pin.
DataNext ==
    \/ NewPage
    \/ FetchPage
    \/ UnpinPage
    \/ FlushPage
    \/ FlushAllPages
    \/ DeletePage
    \/ ClientWrite

DataSpec == Init /\ [][DataNext]_vars

\* ------------------------------------------------- concurrent callers
\* NewPgImp takes no lock: each statement is a step of the calling thread and
\* the steps of two calls interleave.  FetchPgImp, UnpinPgImp, FlushPgImp and
\* DeletePgImp hold latch_ from entry to return, so each runs as one step.
NoPage == [page_id |-> INVALID_PAGE_ID, frame |-> NoFrame]

Running == \A t \in Threads : pc[t] # "abort"

InNew == {t \in Threads : pc[t] # "idle"}

Goto(t, where) == pc' = [pc EXCEPT ![t] = where]

\* return nullptr with *page_id = INVALID_PAGE_ID
NewReturnNull(t) ==
    /\ Goto(t, "idle")
    /\ last' = Call("New", INVALID_PAGE_ID, FALSE)
    /\ UNCHANGED <<poolVars, refs, wrote, expect, issued, nwrites, loc, held>>

\* lines 83-90: the call, and the test that every page is pinned
NewCheck(t) ==
    /\ Running
    /\ pc[t] = "idle"
    /\ held[t] = NoPage
    /\ Len(issued) + Cardinality(InNew) < MaxNew
    /\ IF AllPinned(replacer, free_list)
       THEN NewReturnNull(t)
       ELSE /\ Goto(t, "pick")
            /\ UNCHANGED <<poolVars, ghostVars, loc, held>>
    /\ UNCHANGED <<repVars, lockVars>>

\* lines 94-95 and 101, with LRUReplacer::Victim lines 22-25: read the front
\* of the free list, or else the front of the replacer's queue
NewPick(t) ==
    /\ pc[t] = "pick"
    /\ IF free_list # <<>>
       THEN /\ loc' = [loc EXCEPT ![t].frame_id = Head(free_list)]
            /\ Goto(t, "pop")
            /\ UNCHANGED <<poolVars, ghostVars, held>>
       ELSE IF Len(replacer.que) = 0
       THEN NewReturnNull(t)
       ELSE /\ loc' = [loc EXCEPT ![t].frame_id = Head(replacer.que)]
            /\ Goto(t, "victim")
            /\ UNCHANGED <<poolVars, ghostVars, held>>
    /\ UNCHANGED <<repVars, lockVars>>

\* pop_front() of a list that another caller has emptied is undefined: the
\* process aborts, or the list stays empty and the call goes on
Abort ==
    /\ pc' = [t \in Threads |-> "abort"]
    /\ UNCHANGED <<poolVars, ghostVars, loc, held>>

\* line 96: free_list_.pop_front()
NewPop(t) ==
    /\ pc[t] = "pop"
    /\ \/ /\ free_list # <<>>
          /\ free_list' = Tail(free_list)
          /\ Goto(t, "reset")
          /\ UNCHANGED <<pages, page_table, replacer, next_page_id, instance_index,
                         disk, ghostVars, loc, held>>
       \/ /\ free_list = <<>>
          /\ Goto(t, "reset")
          /\ UNCHANGED <<poolVars, ghostVars, loc, held>>
       \/ /\ free_list = <<>>
          /\ Abort
    /\ UNCHANGED <<repVars, lockVars>>

\* LRUReplacer::Victim lines 26-30, then lines 108-113: pop the queue under
\* the replacer's mutex, write the victim back if dirty, clear its pin count
NewVictim(t) ==
    /\ pc[t] = "victim"
    /\ \/ /\ replacer.que # <<>>
          /\ LET f == loc[t].frame_id
                 r == pages[f]
             IN /\ replacer' = [que |-> Tail(replacer.que),
                                que_page |-> replacer.que_page \ {f}]
                /\ disk' = WriteBack(r, disk)
                /\ pages' = [pages EXCEPT ![f] = [r EXCEPT !.is_dirty = FALSE, !.pin_count = 0]]
                /\ loc' = [loc EXCEPT ![t].io =
                               IF r.is_dirty THEN WriteCall(r.page_id, r.data) ELSE <<>>]
          /\ Goto(t, "reset")
          /\ UNCHANGED <<page_table, free_list, next_page_id, instance_index,
                         ghostVars, held>>
       \/ /\ replacer.que = <<>>
          /\ Abort
    /\ UNCHANGED <<repVars, lockVars>>

\* lines 116-117: p->ResetMemory(); page_table_.erase(p->GetPageId())
NewReset(t) ==
    /\ pc[t] = "reset"
    /\ LET f == loc[t].frame_id
       IN /\ pages' = [pages EXCEPT ![f].data = 0]
          /\ page_table' = EraseOld(page_table, pages[f].page_id)
          /\ refs' = SetRef(refs, pages[f].page_id, 0)
          /\ wrote' = wrote \ {pages[f].page_id}
    /\ Goto(t, "load")
    /\ UNCHANGED <<free_list, replacer, next_page_id, instance_index, disk,
                   last, expect, issued, nwrites, loc, held>>
    /\ UNCHANGED <<repVars, lockVars>>

\* line 265: const page_id_t next_page_id = next_page_id_
NewAllocateLoad(t) ==
    /\ pc[t] = "load"
    /\ loc' = [loc EXCEPT ![t].pid = next_page_id]
    /\ Goto(t, "add")
    /\ UNCHANGED <<poolVars, ghostVars, held>>
    /\ UNCHANGED <<repVars, lockVars>>

\* line 266: next_page_id_ += num_instances_
NewAllocateAdd(t) ==
    /\ pc[t] = "add"
    /\ next_page_id' = NextAfterAllocate(next_page_id)
    /\ Goto(t, "install")
    /\ UNCHANGED <<pages, page_table, free_list, replacer, instance_index, disk,
                   ghostVars, loc, held>>
    /\ UNCHANGED <<repVars, lockVars>>

\* lines 122-133: the page's metadata, the page table entry, the pin, return
NewInstall(t) ==
    /\ pc[t] = "install"
    /\ LET f == loc[t].frame_id
           pid == loc[t].pid
       IN /\ pages' = [pages EXCEPT ![f] = Pinned([@ EXCEPT !.page_id = pid, !.is_dirty = FALSE])]
          /\ page_table' = Put(page_table, pid, f)
          /\ replacer' = ReplacerPin(replacer, f)
          /\ last' = CallIO("New", pid, TRUE, loc[t].io)
          /\ refs' = AddRef(refs, page_table, pid)
          /\ expect' = SetExpect(expect, pid, {})
          /\ issued' = Append(issued, pid)
          /\ held' = [held EXCEPT ![t] = [page_id |-> pid, frame |-> f]]
          /\ loc' = [loc EXCEPT ![t] = NoLocals]
    /\ Goto(t, "idle")
    /\ UNCHANGED <<free_list, next_page_id, instance_index, disk, wrote, nwrites>>
    /\ UNCHANGED <<repVars, lockVars>>

\* The thread that NewPage returned a page to unpins it.
UnpinHeld(t) ==
    /\ Running
    /\ pc[t] = "idle"
    /\ held[t] # NoPage
    /\ \E d \in BOOLEAN : UnpinPgImp(held[t].page_id, d)
    /\ held' = [held EXCEPT ![t] = NoPage]
    /\ UNCHANGED <<pc, loc>>
    /\ UNCHANGED <<repVars, lockVars>>

ConcDeletePage ==
    /\ Running
    /\ \E p \in PageIds : Resident(p) /\ DeletePgImp(p)
    /\ UNCHANGED thrVars
    /\ UNCHANGED <<repVars, lockVars>>

ConcFetchPage ==
    /\ Running
    /\ \E p \in PageArgs : FetchPgImp(p)
    /\ UNCHANGED thrVars
    /\ UNCHANGED <<repVars, lockVars>>

ConcFlushPage ==
    /\ Running
    /\ \E p \in PageArgs : FlushPgImp(p)
    /\ UNCHANGED thrVars
    /\ UNCHANGED <<repVars, lockVars>>

ConcNext ==
    \/ \E t \in Threads : NewCheck(t)
    \/ \E t \in Threads : NewPick(t)
    \/ \E t \in Threads : NewPop(t)
    \/ \E t \in Threads : NewVictim(t)
    \/ \E t \in Threads : NewReset(t)
    \/ \E t \in Threads : NewAllocateLoad(t)
    \/ \E t \in Threads : NewAllocateAdd(t)
    \/ \E t \in Threads : NewInstall(t)
    \/ \E t \in Threads : UnpinHeld(t)
    \/ ConcFetchPage
    \/ ConcFlushPage
    \/ ConcDeletePage

ConcSpec == Init /\ [][ConcNext]_vars

\* The same callers when each NewPage call runs from entry to return without
\* another call in between, as it would under latch_.
SerialNext ==
    \/ \E t \in Threads : InNew \subseteq {t} /\ NewCheck(t)
    \/ \E t \in Threads : NewPick(t)
    \/ \E t \in Threads : NewPop(t)
    \/ \E t \in Threads : NewVictim(t)
    \/ \E t \in Threads : NewReset(t)
    \/ \E t \in Threads : NewAllocateLoad(t)
    \/ \E t \in Threads : NewAllocateAdd(t)
    \/ \E t \in Threads : NewInstall(t)
    \/ \E t \in Threads : InNew = {} /\ UnpinHeld(t)
    \/ InNew = {} /\ ConcFetchPage
    \/ InNew = {} /\ ConcFlushPage
    \/ InNew = {} /\ ConcDeletePage

SerialSpec == Init /\ [][SerialNext]_vars

\* ------------------------------------------------- the replacers on their own
\* The frames tracked, oldest tracking Unpin first: Unpin of an untracked frame
\* makes it the newest, Pin drops the frame, Victim takes the oldest.
TrackUnpin(s, f) == IF f \in Range(s) THEN s ELSE s \o <<f>>

TrackPin(s, f) == SelectSeq(s, LAMBDA x : x # f)

TrackVictim(s) == IF s = <<>> THEN s ELSE SubSeq(s, 2, Len(s))

\* One caller drives an LRUReplacer and a ClockReplacer with the same calls.
RepVictim ==
    LET v == ReplacerVictim(replacer)
        c == ClockVictim(clock)
    IN /\ replacer' = v.rep
       /\ clock' = c.rep
       /\ tracked' = TrackVictim(tracked)
       /\ rcall' = RCall("Victim", NoFrame, Result(v.ok, v.frame), Result(c.ok, c.frame))
       /\ UNCHANGED <<frameVars, ghostVars, thrVars, lockVars>>

RepPin(f) ==
    /\ replacer' = ReplacerPin(replacer, f)
    /\ clock' = ClockPin(clock, f)
    /\ tracked' = TrackPin(tracked, f)
    /\ rcall' = RCall("Pin", f, Void, Void)
    /\ UNCHANGED <<frameVars, ghostVars, thrVars, lockVars>>

RepUnpin(f) ==
    /\ replacer' = ReplacerUnpin(replacer, f)
    /\ clock' = ClockUnpin(clock, f)
    /\ tracked' = TrackUnpin(tracked, f)
    /\ rcall' = RCall("Unpin", f, Void, Void)
    /\ UNCHANGED <<frameVars, ghostVars, thrVars, lockVars>>

RepSize ==
    /\ rcall' = RCall("Size", NoFrame, Result(TRUE, ReplacerSize(replacer)),
                      Result(TRUE, ClockSize(clock)))
    /\ UNCHANGED <<frameVars, replacer, clock, tracked, ghostVars, thrVars, lockVars>>

RepNext ==
    \/ RepVictim
    \/ \E f \in RepFrames : RepPin(f)
    \/ \E f \in RepFrames : RepUnpin(f)
    \/ RepSize

RepSpec == Init /\ [][RepNext]_vars

\* ------------------------------------- the LRUReplacer under concurrent callers
\* Victim reads que.size() and que.front() before it takes mu, Pin searches que
\* before it takes mu: those reads are steps of their own.  What runs between
\* mu.lock() and mu.unlock() is one step.  A thread keeps the frame Victim gave
\* it until it unpins that frame.
Victims == {held[t].frame : t \in Threads} \ {NoFrame}

RepAbort ==
    /\ pc' = [t \in Threads |-> "abort"]
    /\ UNCHANGED <<poolVars, ghostVars, loc, held, repVars, lockVars>>

\* Thread t moves to where; a thread whose Pin has found frame f in que and
\* has not erased it yet is left with an iterator to a node that is gone.
Removed(t, f, where) ==
    pc' = [u \in Threads |->
              IF u = t THEN where
              ELSE IF pc[u] = "perase" /\ loc[u].frame_id = f THEN "pdangle"
              ELSE pc[u]]

\* Victim lines 22-24: if (que.size() == 0) return false
VictimSize(t) ==
    /\ Running
    /\ pc[t] = "idle"
    /\ held[t] = NoPage
    /\ IF Len(replacer.que) = 0
       THEN UNCHANGED pc
       ELSE Goto(t, "vfront")
    /\ UNCHANGED <<poolVars, ghostVars, loc, held, repVars, lockVars>>

\* Victim line 25: *frame_id = que.front(); front() of a list that another
\* caller has emptied is undefined: any frame id, or the process aborts
VictimFront(t) ==
    /\ pc[t] = "vfront"
    /\ \/ /\ replacer.que # <<>>
          /\ loc' = [loc EXCEPT ![t].frame_id = Head(replacer.que)]
          /\ Goto(t, "vpop")
          /\ UNCHANGED <<poolVars, ghostVars, held, repVars, lockVars>>
       \/ /\ replacer.que = <<>>
          /\ \E f \in Frames : loc' = [loc EXCEPT ![t].frame_id = f]
          /\ Goto(t, "vpop")
          /\ UNCHANGED <<poolVars, ghostVars, held, repVars, lockVars>>
       \/ /\ replacer.que = <<>>
          /\ RepAbort

\* Victim lines 26-30: under mu, que.pop_front(); que_page.erase(*frame_id);
\* return true.  pop_front() of an empty list is undefined: the list stays
\* empty, or the process aborts
VictimPop(t) ==
    /\ pc[t] = "vpop"
    /\ \/ /\ replacer.que # <<>>
          /\ replacer' = [que |-> Tail(replacer.que),
                          que_page |-> replacer.que_page \ {loc[t].frame_id}]
          /\ Removed(t, Head(replacer.que), "idle")
          /\ held' = [held EXCEPT ![t].frame = loc[t].frame_id]
          /\ loc' = [loc EXCEPT ![t] = NoLocals]
          /\ UNCHANGED <<frameVars, ghostVars, repVars, lockVars>>
       \/ /\ replacer.que = <<>>
          /\ replacer' = [replacer EXCEPT !.que_page = @ \ {loc[t].frame_id}]
          /\ Goto(t, "idle")
          /\ held' = [held EXCEPT ![t].frame = loc[t].frame_id]
          /\ loc' = [loc EXCEPT ![t] = NoLocals]
          /\ UNCHANGED <<frameVars, ghostVars, repVars, lockVars>>
       \/ /\ replacer.que = <<>>
          /\ RepAbort

\* Pin lines 34-35: the search of que, outside mu
PinFind(t, f) ==
    /\ Running
    /\ pc[t] = "idle"
    /\ IF InSeq(replacer.que, f)
       THEN /\ loc' = [loc EXCEPT ![t].frame_id = f]
            /\ Goto(t, "perase")
       ELSE UNCHANGED <<pc, loc>>
    /\ UNCHANGED <<poolVars, ghostVars, held, repVars, lockVars>>

\* Pin lines 36-41: under mu, que.erase(it); que_page.erase(frame_id)
PinErase(t) ==
    /\ pc[t] = "perase"
    /\ replacer' = [que |-> RemoveFirst(replacer.que, loc[t].frame_id),
                    que_page |-> replacer.que_page \ {loc[t].frame_id}]
    /\ Removed(t, loc[t].frame_id, "idle")
    /\ loc' = [loc EXCEPT ![t] = NoLocals]
    /\ UNCHANGED <<frameVars, ghostVars, held, repVars, lockVars>>

\* Pin lines 36-41 when the node found has been removed by another caller:
\* que.erase(it) of that iterator is undefined.  The list is left alone, or
\* the node now holding the frame goes, or the process aborts
PinDangling(t) ==
    /\ pc[t] = "pdangle"
    /\ \/ /\ replacer' = [replacer EXCEPT !.que_page = @ \ {loc[t].frame_id}]
          /\ Goto(t, "idle")
          /\ loc' = [loc EXCEPT ![t] = NoLocals]
          /\ UNCHANGED <<frameVars, ghostVars, held, repVars, lockVars>>
       \/ /\ InSeq(replacer.que, loc[t].frame_id)
          /\ replacer' = [que |-> RemoveFirst(replacer.que, loc[t].frame_id),
                          que_page |-> replacer.que_page \ {loc[t].frame_id}]
          /\ Removed(t, loc[t].frame_id, "idle")
          /\ loc' = [loc EXCEPT ![t] = NoLocals]
          /\ UNCHANGED <<frameVars, ghostVars, held, repVars, lockVars>>
       \/ RepAbort

\* Unpin lines 47-53, all under mu.  The frame is one no other thread holds;
\* unpinning the frame Victim gave the thread lets go of it.  The callers are
\* the pool's: they pass its frame ids and unpin while que is short of
\* pool_size entries.
ConcUnpin(t, f) ==
    /\ Running
    /\ pc[t] = "idle"
    /\ f \notin Victims \ {held[t].frame}
    /\ Len(replacer.que) < PoolSize
    /\ replacer' = ReplacerUnpin(replacer, f)
    /\ held' = IF held[t].frame = f THEN [held EXCEPT ![t] = NoPage] ELSE held
    /\ UNCHANGED <<frameVars, ghostVars, pc, loc, repVars, lockVars>>

RepConcNext ==
    \/ \E t \in Threads : VictimSize(t)
    \/ \E t \in Threads : VictimFront(t)
    \/ \E t \in Threads : VictimPop(t)
    \/ \E t \in Threads, f \in Frames : PinFind(t, f)
    \/ \E t \in Threads : PinErase(t)
    \/ \E t \in Threads : PinDangling(t)
    \/ \E t \in Threads, f \in Frames : ConcUnpin(t, f)

RepConcSpec == Init /\ [][RepConcNext]_vars

\* --------------------------------------------------- a pool of one frame
\* A pool constructed with pool_size = 1.  Its client, thread 1, makes the
\* calls NewPage, a write of its bytes, UnpinPage(p0, true), NewPage,
\* UnpinPage(p1, _), FetchPage(p0) in that order, whatever each returns;
\* afterwards the pool goes on being used.
Client == 1

OneFrameInit == InitPool(1)

RoundTripStep(from, to) ==
    /\ pc[Client] = from
    /\ pc' = [pc EXCEPT ![Client] = to]
    /\ UNCHANGED <<repVars, lockVars>>

RoundTripNew0 ==
    /\ RoundTripStep("idle", "write")
    /\ NewPgImp
    /\ loc' = [loc EXCEPT ![Client].pid = last'.page_id]
    /\ UNCHANGED held

RoundTripWrite ==
    /\ RoundTripStep("write", "unpin0")
    /\ \E b \in Bytes \ {0} : WriteData(0, b)
    /\ UNCHANGED <<loc, held>>

RoundTripUnpin0 ==
    /\ RoundTripStep("unpin0", "new1")
    /\ UnpinPgImp(loc[Client].pid, TRUE)
    /\ UNCHANGED <<loc, held>>

RoundTripNew1 ==
    /\ RoundTripStep("new1", "unpin1")
    /\ NewPgImp
    /\ held' = [held EXCEPT ![Client].page_id = last'.page_id]
    /\ UNCHANGED loc

RoundTripUnpin1 ==
    /\ RoundTripStep("unpin1", "fetch0")
    /\ \E d \in BOOLEAN : UnpinPgImp(held[Client].page_id, d)
    /\ UNCHANGED <<loc, held>>

RoundTripFetch0 ==
    /\ RoundTripStep("fetch0", "done")
    /\ FetchPgImp(loc[Client].pid)
    /\ UNCHANGED <<loc, held>>

OneFrameNext ==
    \/ RoundTripNew0
    \/ RoundTripWrite
    \/ RoundTripUnpin0
    \/ RoundTripNew1
    \/ RoundTripUnpin1
    \/ RoundTripFetch0
    \/ pc[Client] = "done" /\ FetchPage
    \/ pc[Client] = "done" /\ UnpinPage
    \/ pc[Client] = "done" /\ FlushPage
    \/ pc[Client] = "done" /\ FlushAllPages
    \/ pc[Client] = "done" /\ DeletePage

OneFrameSpec == OneFrameInit /\ [][OneFrameNext]_vars

\* ------------------------------------------------------ the two mutexes
\* What each operation does with latch_ and with the replacer's mu; which
\* branch an operation takes is left open.  A thread waiting for a mutex is
\* at "wait", "inner_wait" or "mu_wait".
Operations == {"New", "Fetch", "Unpin", "Flush", "FlushAll", "Delete"}

\* std::scoped_lock lock(latch_) as the first statement, put in FlushAllPgsImp
\* as well
LocksAtEntryToo(op) == op \in {"Fetch", "Unpin", "Flush", "Delete", "FlushAll"}

\* std::scoped_lock lock(latch_) as the first statement: lines 55, 137, 206,
\* 236; NewPgImp and FlushAllPgsImp have none
LocksAtEntry(op) == op \in {"Fetch", "Unpin", "Flush", "Delete"}

\* The replacer calls that take mu which one operation can make: Victim and
\* Pin in NewPgImp and FetchPgImp, Unpin in UnpinPgImp
ReplacerCalls(op) ==
    IF op \in {"New", "Fetch"} THEN 2 ELSE IF op = "Unpin" THEN 1 ELSE 0

At(t, where) == pc' = [pc EXCEPT ![t] = where]

LockFrame == UNCHANGED <<poolVars, ghostVars, loc, held, repVars>>

Invoke(t, op) ==
    /\ pc[t] = "idle"
    /\ call' = [call EXCEPT ![t] = [op |-> op, n |-> 0]]
    /\ At(t, IF LocksAtEntry(op) THEN "wait" ELSE "run")
    /\ UNCHANGED <<latch, mu>>
    /\ LockFrame

\* std::scoped_lock lock(latch_)
LatchLock(t) ==
    /\ pc[t] = "wait"
    /\ latch = NoThread
    /\ latch' = t
    /\ At(t, "run")
    /\ UNCHANGED <<mu, call>>
    /\ LockFrame

\* a call of replacer_->Victim, Pin or Unpin that reaches mu.lock()
ReplacerCall(t) ==
    /\ pc[t] = "run"
    /\ call[t].n < ReplacerCalls(call[t].op)
    /\ At(t, "mu_wait")
    /\ UNCHANGED <<latch, mu, call>>
    /\ LockFrame

\* mu.lock()
MuLock(t) ==
    /\ pc[t] = "mu_wait"
    /\ mu = NoThread
    /\ mu' = t
    /\ At(t, "mu")
    /\ UNCHANGED <<latch, call>>
    /\ LockFrame

\* mu.unlock(), and the replacer call returns
MuUnlock(t) ==
    /\ pc[t] = "mu"
    /\ mu' = NoThread
    /\ call' = [call EXCEPT ![t].n = @ + 1]
    /\ At(t, "run")
    /\ UNCHANGED latch
    /\ LockFrame

\* FlushAllPgsImp line 77: this->FlushPage(pages_[i].page_id_)
FlushAllIteration(t) ==
    /\ pc[t] = "run"
    /\ call[t].op = "FlushAll"
    /\ call[t].n < PoolSize
    /\ At(t, "inner_wait")
    /\ UNCHANGED <<latch, mu, call>>
    /\ LockFrame

\* FlushPgImp line 55, called from the loop
InnerLock(t) ==
    /\ pc[t] = "inner_wait"
    /\ latch = NoThread
    /\ latch' = t
    /\ At(t, "inner")
    /\ UNCHANGED <<mu, call>>
    /\ LockFrame

\* FlushPgImp returns to the loop, its scoped_lock releasing latch_; ++i
InnerReturn(t) ==
    /\ pc[t] = "inner"
    /\ latch' = NoThread
    /\ call' = [call EXCEPT ![t].n = @ + 1]
    /\ At(t, "run")
    /\ UNCHANGED mu
    /\ LockFrame

\* the operation returns; a scoped_lock taken at entry releases latch_
Return(t) ==
    /\ pc[t] = "run"
    /\ call[t].op = "FlushAll" => call[t].n = PoolSize
    /\ latch' = IF LocksAtEntry(call[t].op) THEN NoThread ELSE latch
    /\ call' = [call EXCEPT ![t] = NoCall]
    /\ At(t, "idle")
    /\ UNCHANGED mu
    /\ LockFrame

LockNext ==
    \/ \E t \in Threads, op \in Operations : Invoke(t, op)
    \/ \E t \in Threads : LatchLock(t)
    \/ \E t \in Threads : ReplacerCall(t)
    \/ \E t \in Threads : MuLock(t)
    \/ \E t \in Threads : MuUnlock(t)
    \/ \E t \in Threads : FlushAllIteration(t)
    \/ \E t \in Threads : InnerLock(t)
    \/ \E t \in Threads : InnerReturn(t)
    \/ \E t \in Threads : Return(t)

\* Fair scheduling: a thread that can take a step it is at takes it, and a
\* thread that finds the mutex it waits for free again and again gets it.
LockFairness ==
    \A t \in Threads :
        /\ SF_vars(LatchLock(t))
        /\ SF_vars(MuLock(t))
        /\ SF_vars(InnerLock(t))
        /\ WF_vars(MuUnlock(t))
        /\ WF_vars(FlushAllIteration(t))
        /\ WF_vars(InnerReturn(t))
        /\ WF_vars(Return(t))

LockSpec == Init /\ [][LockNext]_vars /\ LockFairness


\* =================================================================== claims
\* C1: two callers that each hold the page a NewPage call returned to them
\* hold different page ids in different frames.
C1_ConcurrentNewPageDistinct ==
    \A t1, t2 \in Threads :
        (t1 # t2 /\ held[t1] # NoPage /\ held[t2] # NoPage)
            => /\ held[t1].page_id # held[t2].page_id
               /\ held[t1].frame # held[t2].frame

\* C2: UnpinPage on a resident, pinned page leaves is_dirty_ = (old flag OR
\* is_dirty), and the flag of a page that stays in its frame is cleared by
\* FlushPage or FlushAllPages only.
C2_UnpinDirtyMonotonic ==
    [][ /\ \A p \in PageIds, d \in BOOLEAN :
              (Resident(p) /\ pages[FrameOf(p)].pin_count > 0 /\ UnpinPgImp(p, d))
                  => pages'[FrameOf(p)].is_dirty = (pages[FrameOf(p)].is_dirty \/ d)
        /\ \A f \in Frames :
              (/\ pages[f].is_dirty
               /\ ~pages'[f].is_dirty
               /\ pages'[f].page_id = pages[f].page_id)
                  => last'.op \in {"Flush", "FlushAll"} ]_vars

\* C3: read-your-writes. With no FlushPage in between, a FetchPage(p) that
\* succeeds after bytes were stored in p and p was unpinned as dirty returns
\* those bytes.
C3_ReadYourWrites ==
    [][ \A p \in PageIds :
            (FetchPgImp(p) /\ last'.ret)
                => \A b \in expect[p] : pages'[page_table'[p]].data = b ]_vars

\* C4: every frame is in exactly one of the free list, the replacer (resident,
\* pin count 0) and the pinned frames (resident, pin count > 0).
IsFree(f) == InFreeList(f)

IsEvictable(f) ==
    /\ InReplacer(f)
    /\ pages[f].page_id # INVALID_PAGE_ID
    /\ Resident(pages[f].page_id)
    /\ pages[f].pin_count = 0

IsPinned(f) ==
    /\ pages[f].page_id # INVALID_PAGE_ID
    /\ Resident(pages[f].page_id)
    /\ pages[f].pin_count > 0

C4_ThreeWayPartition ==
    \A f \in Frames :
        /\ IsFree(f) \/ IsEvictable(f) \/ IsPinned(f)
        /\ ~(IsFree(f) /\ InReplacer(f))
        /\ ~(IsFree(f) /\ IsPinned(f))
        /\ ~(InReplacer(f) /\ IsPinned(f))
        /\ IsFree(f) <=> (~InReplacer(f) /\ \A p \in DOMAIN page_table : page_table[p] # f)

\* C5: UnpinPage on a resident page whose pin count is 0 returns false and
\* changes neither the frame (page id, pin count, dirty flag) nor the replacer.
C5_DoubleUnpinChangesNothing ==
    [][ \A p \in PageIds, d \in BOOLEAN :
            (Resident(p) /\ pages[FrameOf(p)].pin_count = 0 /\ UnpinPgImp(p, d))
                => /\ last'.ret = FALSE
                   /\ pages'[FrameOf(p)] = pages[FrameOf(p)]
                   /\ replacer' = replacer ]_vars

\* C6: while a frame's pin count is above 0 no operation of the pool changes
\* the page id it holds or its buffer; only a pinning client stores bytes.
C6_PinnedFrameNotReused ==
    [][ \A f \in Frames :
            pages[f].pin_count > 0
                => /\ pages'[f].page_id = pages[f].page_id
                   /\ pages'[f].data = pages[f].data \/ last'.op = "Write" ]_vars

\* A FetchPage miss has just evicted a created page into the only frame that is
\* not pinned, next to a frame pinned MaxPin times whose buffer holds bytes.
C6_Witness ==
    /\ last.op = "Fetch" /\ last.ret
    /\ free_list = <<>>
    /\ \E p \in Range(issued) : ~Resident(p)
    /\ \E f \in Frames : pages[f].pin_count = MaxPin /\ pages[f].data # 0
    /\ \E f \in Frames : pages[f].pin_count = 1 /\ pages[f].page_id \notin Range(issued)

\* C7: for every resident page the pin count is the number of pins handed out
\* by NewPage and FetchPage in this residency minus the successful UnpinPage
\* calls, and is never negative; UnpinPage on a resident page returns true
\* exactly when the pin count was above 0, and the frame is in the replacer
\* after a successful unpin exactly when its pin count reached 0.
C7_PinAccounting ==
    [][ /\ \A p \in DOMAIN page_table' :
              /\ pages'[page_table'[p]].pin_count = refs'[p]
              /\ pages'[page_table'[p]].pin_count >= 0
        /\ \A p \in PageIds, d \in BOOLEAN :
              (Resident(p) /\ UnpinPgImp(p, d))
                  => /\ last'.ret = (pages[FrameOf(p)].pin_count > 0)
                     /\ last'.ret =>
                          /\ pages'[FrameOf(p)].pin_count = pages[FrameOf(p)].pin_count - 1
                          /\ InSeq(replacer'.que, FrameOf(p))
                                <=> (pages'[FrameOf(p)].pin_count = 0) ]_vars

\* C8: page_table_[p] = f exactly when pages_[f].page_id_ = p, and
\* INVALID_PAGE_ID is never a key.
C8_PageTableAgrees ==
    /\ INVALID_PAGE_ID \notin DOMAIN page_table
    /\ \A p \in DOMAIN page_table : pages[page_table[p]].page_id = p
    /\ \A f \in Frames :
          pages[f].page_id # INVALID_PAGE_ID
              => /\ pages[f].page_id \in DOMAIN page_table
                 /\ page_table[pages[f].page_id] = f

\* C9: the k-th page id NewPage returns is instance_index + (k-1) * num_instances
\* (so it is congruent to instance_index, the ids increase and none is reused),
\* the cursor moves only when NewPage succeeds, and no id is one that another
\* instance of the pool hands out.
C9_PageIdAllocation ==
    /\ \A k \in 1 .. Len(issued) :
          /\ issued[k] = instance_index + (k - 1) * NumInstances
          /\ issued[k] % NumInstances = instance_index
          /\ \A j \in 0 .. (NumInstances - 1), m \in 0 .. MaxNew :
                j # instance_index => issued[k] # j + m * NumInstances
    /\ next_page_id = instance_index + Len(issued) * NumInstances
    /\ (last.op = "New" /\ last.ret) => (issued # <<>> /\ last.page_id = issued[Len(issued)])

\* NewPage has just failed after an earlier one succeeded, with a page deleted
\* in between.
C9_Witness ==
    /\ last.op = "New" /\ ~last.ret
    /\ Len(issued) >= 1
    /\ \E p \in Range(issued) : ~Resident(p)

\* C10: with every frame pinned (free list and replacer empty) NewPage returns
\* null with INVALID_PAGE_ID and FetchPage of a non-resident id returns null,
\* both leaving the pool and the disk as they were, and FetchPage of a resident
\* page still succeeds; with a frame free or evictable both succeed.
AllFramesPinned == \A f \in Frames : pages[f].pin_count > 0

C10_PoolExhaustion ==
    [][ /\ AllFramesPinned <=> (free_list = <<>> /\ replacer.que = <<>>)
        /\ NewPgImp =>
              IF AllFramesPinned
              THEN /\ ~last'.ret /\ last'.page_id = INVALID_PAGE_ID
                   /\ UNCHANGED poolVars
              ELSE last'.ret
        /\ \A p \in PageIds :
              FetchPgImp(p) =>
                  IF Resident(p) THEN last'.ret
                  ELSE IF AllFramesPinned
                  THEN ~last'.ret /\ UNCHANGED poolVars
                  ELSE last'.ret ]_vars

\* NewPage has just been refused with every frame pinned, bytes in a buffer
\* and bytes on disk.
C10_Witness ==
    /\ last.op = "New" /\ ~last.ret
    /\ AllFramesPinned
    /\ \E f \in Frames : pages[f].data # 0
    /\ \E p \in PageIds : disk[p] # 0

\* C11: every frame the replacer tracks has pin count 0 and holds a page; in
\* particular the frame DeletePage has just freed is not tracked.
C11_ReplacerTracksEvictable ==
    \A f \in Frames :
        InReplacer(f) => (pages[f].pin_count = 0 /\ pages[f].page_id # INVALID_PAGE_ID)

\* C12: DeletePage on a resident page with pin count above 0 returns false,
\* makes no DeallocatePage call and changes nothing, and a FetchPage of a
\* pinned resident page that follows the refusal is a hit; DeletePage on a
\* resident page with pin count 0 returns true, removes it from the page table,
\* resets the frame and appends the frame to the back of the free list.
C12_DeletePage ==
    [][ /\ \A p \in PageIds :
              (Resident(p) /\ DeletePgImp(p)) =>
                  IF pages[FrameOf(p)].pin_count > 0
                  THEN /\ ~last'.ret
                       /\ last'.io = <<>>
                       /\ UNCHANGED poolVars
                  ELSE /\ last'.ret
                       /\ last'.io = DeallocateCall(p)
                       /\ p \notin DOMAIN page_table'
                       /\ pages'[FrameOf(p)] = EmptyPage
                       /\ free_list' = free_list \o <<FrameOf(p)>>
        /\ \A p \in PageIds :
              (/\ last.op = "Delete" /\ ~last.ret
               /\ Resident(p) /\ pages[FrameOf(p)].pin_count > 0
               /\ FetchPgImp(p))
                  => /\ last'.ret
                     /\ last'.io = <<>>
                     /\ page_table' = page_table
                     /\ pages'[FrameOf(p)] =
                            [pages[FrameOf(p)] EXCEPT !.pin_count = @ + 1] ]_vars

\* DeletePage has just been refused for a pinned page whose buffer holds
\* bytes, after an earlier DeletePage put a frame back on the free list.
C12_Witness ==
    /\ last.op = "Delete" /\ ~last.ret
    /\ free_list # <<>>
    /\ \E p \in Range(issued) : ~Resident(p)
    /\ \E f \in Frames : pages[f].pin_count > 0 /\ pages[f].data # 0

\* C13: the LRUReplacer's queue is the tracked frames in the order of their
\* tracking Unpin, each once; Victim removes and returns the oldest and finds
\* nothing when none is tracked; Unpin of a tracked frame and Pin of an
\* untracked frame change nothing; Size is the number of tracked frames.
C13_LruOrder ==
    [][ /\ replacer'.que = tracked'
        /\ replacer'.que_page = Range(tracked')
        /\ Cardinality(Range(tracked')) = Len(tracked')
        /\ rcall'.op = "Victim" =>
              IF tracked = <<>>
              THEN rcall'.lru = Result(FALSE, NoFrame) /\ replacer' = replacer
              ELSE /\ rcall'.lru = Result(TRUE, Head(tracked))
                   /\ ~InSeq(replacer'.que, Head(tracked))
                   /\ ReplacerSize(replacer') = ReplacerSize(replacer) - 1
        /\ (rcall'.op = "Unpin" /\ rcall'.arg \in Range(tracked)) => replacer' = replacer
        /\ (rcall'.op = "Unpin" /\ rcall'.arg \notin Range(tracked))
              => replacer'.que = replacer.que \o <<rcall'.arg>>
        /\ (rcall'.op = "Pin" /\ rcall'.arg \notin Range(tracked)) => replacer' = replacer
        /\ (rcall'.op = "Pin" /\ rcall'.arg \in Range(tracked))
              => /\ ~InSeq(replacer'.que, rcall'.arg)
                 /\ ReplacerSize(replacer') = ReplacerSize(replacer) - 1
        /\ rcall'.op = "Size" => rcall'.lru = Result(TRUE, Len(tracked)) ]_vars

\* Victim has just returned the oldest of the tracked frames, which was not
\* the lowest frame id, and left the replacer tracking the others.
C13_Witness ==
    /\ rcall.op = "Victim" /\ rcall.lru.ok
    /\ Len(tracked) >= 2
    /\ \E i \in 1 .. Len(tracked) : tracked[i] < rcall.lru.val
    /\ tracked[1] > tracked[Len(tracked)]

\* C19: driven by the same calls from empty, the ClockReplacer hands back what
\* the LRUReplacer hands back (the same Victim result, the same Size) at every
\* call, and its state is the same queue: it keeps no reference bit.
C19_ClockIsLru ==
    /\ rcall.clock = rcall.lru
    /\ ClockSize(clock) = ReplacerSize(replacer)
    /\ clock.que = replacer.que
    /\ DOMAIN clock = {"que", "que_page"}

\* Both replacers have just handed back a victim that was unpinned after a
\* frame still tracked had been unpinned and pinned again.
C19_Witness ==
    /\ rcall.op = "Victim"
    /\ rcall.clock.ok
    /\ Len(clock.que) >= 2
    /\ clock.que[1] > clock.que[2]
    /\ rcall.clock.val > clock.que[2]

\* C14: under concurrent callers no two threads hold the same frame from
\* Victim, and no Victim or Pin acts on a queue element that another call has
\* removed in the meantime.
C14_ReplacerLinearizable ==
    /\ \A t1, t2 \in Threads :
          (t1 # t2 /\ held[t1].frame # NoFrame) => held[t1].frame # held[t2].frame
    /\ \A t \in Threads :
          /\ pc[t] \notin {"pdangle", "abort"}
          /\ pc[t] = "vpop" => (replacer.que # <<>> /\ Head(replacer.que) = loc[t].frame_id)

\* C15: NewPage and a FetchPage miss take the front of the free list when
\* there is one, without a WritePage and without evicting anything; otherwise
\* they take the replacer's victim, and when the victim is dirty the first disk
\* call is the one WritePage of the call, carrying the old id and the old
\* contents, ahead of the ReadPage of the incoming page; when the victim is
\* clean there is no WritePage.
WritesOf(io) == SelectSeq(io, LAMBDA c : c.call = "WritePage")

EvictionRule(pid) ==
    IF free_list # <<>>
    THEN /\ page_table'[pid] = Head(free_list)
         /\ free_list' = Tail(free_list)
         /\ WritesOf(last'.io) = <<>>
         /\ disk' = disk
         /\ \A g \in Frames \ {Head(free_list)} : InSeq(replacer'.que, g) <=> InReplacer(g)
    ELSE LET v == Head(replacer.que)
             old == pages[v]
         IN /\ page_table'[pid] = v
            /\ replacer'.que = Tail(replacer.que)
            /\ IF old.is_dirty
               THEN /\ WritesOf(last'.io) = WriteCall(old.page_id, old.data)
                    /\ last'.io[1] = WriteCall(old.page_id, old.data)[1]
                    /\ disk' = [disk EXCEPT ![old.page_id] = old.data]
               ELSE /\ WritesOf(last'.io) = <<>>
                    /\ disk' = disk

C15_EvictionWriteBack ==
    [][ /\ (NewPgImp /\ last'.ret) => EvictionRule(last'.page_id)
        /\ \A p \in PageIds :
              (~Resident(p) /\ FetchPgImp(p) /\ last'.ret)
                  => /\ EvictionRule(p)
                     /\ last'.io[Len(last'.io)] = ReadCall(p, pages'[page_table'[p]].data)[1]
                     /\ Len(last'.io) = Len(WritesOf(last'.io)) + 1 ]_vars

\* A FetchPage miss has just written a dirty victim's bytes back and then read
\* the incoming page.
C15_Witness ==
    /\ last.op = "Fetch" /\ last.ret
    /\ Len(last.io) = 2
    /\ last.io[1].call = "WritePage" /\ last.io[1].data # 0
    /\ last.io[2].call = "ReadPage"
    /\ disk[last.io[1].page_id] = last.io[1].data

\* C16: in a pool of one frame every call of the round trip succeeds: the
\* second NewPage evicts p0 with one WritePage of p0 and the bytes stored, and
\* the final FetchPage(p0) leaves p0 in the frame with those bytes and pin
\* count 1.
C16_SingleFrameRoundTrip ==
    [][ /\ RoundTripNew0 => (last'.ret /\ last'.page_id # INVALID_PAGE_ID)
        /\ RoundTripWrite => pages'[0].data # 0
        /\ RoundTripUnpin0 => last'.ret
        /\ RoundTripNew1 =>
              /\ last'.ret
              /\ last'.page_id \notin {INVALID_PAGE_ID, loc[Client].pid}
              /\ last'.io = WriteCall(loc[Client].pid, pages[0].data)
              /\ disk'[loc[Client].pid] = pages[0].data
              /\ pages[0].data # 0
        /\ RoundTripUnpin1 => last'.ret
        /\ RoundTripFetch0 =>
              /\ last'.ret
              /\ page_table' = (loc[Client].pid :> 0)
              /\ pages'[0] = [page_id |-> loc[Client].pid, pin_count |-> 1,
                              is_dirty |-> FALSE, data |-> disk[loc[Client].pid]]
              /\ pages'[0].data # 0
              /\ expect[loc[Client].pid] = {pages'[0].data} ]_vars

\* The round trip has just ended: the page written first is back in the one
\* frame with its bytes, read from disk, after the second page was unpinned
\* as dirty and written back.
C16_Witness ==
    /\ pc[Client] = "done"
    /\ last.op = "Fetch" /\ last.ret
    /\ DOMAIN pages = {0}
    /\ pages[0].data # 0 /\ pages[0].pin_count = 1
    /\ Len(last.io) = 2 /\ last.io[1].page_id = held[Client].page_id

\* C17: FlushPage on a resident page makes one WritePage of the page and its
\* current bytes, clears the dirty flag, returns true and changes nothing
\* else: pin counts, buffers, page table, free list and the replacer's queue
\* stay as they were.  A second FlushPage of the same page right after makes
\* the same WritePage and leaves the disk as the first left it.
C17_FlushPage ==
    [][ \A p \in PageIds :
            (Resident(p) /\ FlushPgImp(p)) =>
                /\ last'.ret
                /\ last'.io = WriteCall(p, pages[FrameOf(p)].data)
                /\ disk' = [disk EXCEPT ![p] = pages[FrameOf(p)].data]
                /\ pages' = [pages EXCEPT ![FrameOf(p)].is_dirty = FALSE]
                /\ UNCHANGED <<page_table, free_list, replacer, next_page_id>>
                /\ (last.op = "Flush" /\ last.ret /\ last.io[1].page_id = p)
                      => (disk' = disk /\ last'.io = last.io) ]_vars

\* FlushPage has just written the bytes of a dirty page that is evictable and
\* not the replacer's next victim.
C17_Witness ==
    /\ last.op = "Flush" /\ last.ret
    /\ last.io[1].data # 0
    /\ Len(replacer.que) = 2
    /\ Resident(last.io[1].page_id)
    /\ replacer.que[2] = FrameOf(last.io[1].page_id)
    /\ pages[replacer.que[2]].pin_count = 0

\* C18: FetchPage(INVALID_PAGE_ID) returns null, UnpinPage and FlushPage of an
\* id that is not resident return false and DeletePage of one returns true;
\* none of them makes a disk call or changes the pool or the disk.
C18_NotResidentNoEffect ==
    [][ /\ FetchPgImp(INVALID_PAGE_ID) => (~last'.ret /\ last'.io = <<>> /\ UNCHANGED poolVars)
        /\ \A p \in PageArgs :
              ~Resident(p) =>
                  /\ \A d \in BOOLEAN :
                        UnpinPgImp(p, d) => (~last'.ret /\ last'.io = <<>> /\ UNCHANGED poolVars)
                  /\ FlushPgImp(p) => (~last'.ret /\ last'.io = <<>> /\ UNCHANGED poolVars)
                  /\ DeletePgImp(p) => (last'.ret /\ last'.io = <<>> /\ UNCHANGED poolVars) ]_vars

\* DeletePage of an id that is not resident has just returned true in a pool
\* holding a dirty pinned page, an evictable page and no free frame.
C18_Witness ==
    /\ last.op = "Delete" /\ last.ret /\ last.io = <<>>
    /\ free_list = <<>>
    /\ Len(replacer.que) = 1
    /\ \E f \in Frames : pages[f].pin_count > 0 /\ pages[f].is_dirty
    /\ \E p \in Range(issued) : ~Resident(p)

\* C20: a thread never waits for latch_ while it holds latch_ or mu (so the
\* order is latch_ then mu, and latch_ is not taken twice), mu is held only
\* inside a replacer call, and under fair scheduling every operation a thread
\* has invoked returns.
LockOrder ==
    \A t \in Threads :
        /\ pc[t] \in {"wait", "inner_wait"} => (latch # t /\ mu # t)
        /\ mu = t <=> pc[t] = "mu"
        /\ latch = t =>
              \/ pc[t] = "inner"
              \/ LocksAtEntry(call[t].op) /\ pc[t] \in {"run", "mu_wait", "mu"}

=============================================================================
